---- MODULE Spec2Model ----
(***************************************************************************)
(* Model of package waiter (src/waiter.go): a Waiter owns a buffered       *)
(* channel of callbacks (fnCh), one worker goroutine (run) that receives   *)
(* them one at a time, enforces `delay` since `last` (wait) and calls      *)
(* them, and an atomic closed flag set by Close.  Client goroutines call   *)
(* Call, Wait and Close concurrently.  Time is a discrete clock `now`.     *)
(*                                                                         *)
(* src/waiter.go holds two copies of the package: the first leaves `last`  *)
(* zero in New, the second seeds it with time.Now().  Init covers both.    *)
(***************************************************************************)
EXTENDS Integers, Sequences, FiniteSets, TLC

\* ---- bounds of the model ------------------------------------------------
NumProcs    == 2    \* client goroutines
MaxCalls    == 2    \* Call/Wait invocations over a run (callback ids)
MaxClose    == 2    \* Close invocations, from clients and callback bodies
MaxTime     == 3    \* the clock ticks freely up to here
MaxDelay    == 1    \* New's delay argument ranges over 0..MaxDelay
MaxQueueLen == 1    \* New's queueLen argument ranges over 0..MaxQueueLen
MaxQuantity == 3    \* RateLimit's quantity ranges over -MaxQuantity..MaxQuantity
MaxWindow   == 7    \* RateLimit's delay ranges over -MaxWindow..MaxWindow

Procs == 1..NumProcs
Ids   == 1..MaxCalls

\* time.Time: 0 is the zero value, the clock starts at 1
ZeroTime  == 0
StartTime == 1

VARIABLES
  delay,      \* Waiter.delay
  cap,        \* cap(Waiter.fnCh)
  last,       \* Waiter.last
  fnCh,       \* Waiter.fnCh: buffered callbacks, oldest first
  closed,     \* Waiter.closed
  now,        \* the clock read by time.Now()
  wpc,        \* position of the worker goroutine in run/wait
  cur,        \* fn: the callback the worker holds (0: none)
  wakeAt,     \* end of the worker's time.Sleep
  pc,         \* position of each client goroutine
  mycb,       \* callback of the client's current Call/Wait invocation
  nextId,     \* next unused callback id
  wrapped,    \* callbacks built by Wait (f(); done <- nil)
  closer,     \* callbacks whose body calls w.Close()
  running,    \* callbacks whose execution has started and not returned
  \* ---- history (observations, never read by the program) ----
  enq,        \* callbacks in the order they were sent on fnCh
  started,    \* callbacks in the order their execution started
  startAt,    \* when the latest execution started (0: none yet)
  lateStarts, \* executions started while closed was already true
  finished,   \* callbacks whose body f has returned
  res,        \* result of each Call/Wait invocation
  late,       \* invocations begun after a Close returned success
  closeTrue,  \* Close invocations that reported "closed it"
  closeFalse, \* Close invocations that reported "already closed"
  nClose,     \* Close invocations made or promised by a callback body
  deq,        \* callbacks the worker has received from fnCh
  closedBy,   \* who set the closed flag: "none", "client" or "callback"
  \* ---- RateLimit, a function of its arguments alone ----
  rl          \* a RateLimit call: its arguments and what it produced

prog == <<delay, cap, last, fnCh, closed, now, wpc, cur, wakeAt>>
cli  == <<pc, mycb, nextId, wrapped, closer, running>>
hist == <<enq, started, startAt, lateStarts, finished, res, late, closeTrue, closeFalse, nClose>>
vars == <<prog, cli, hist, deq, closedBy, rl>>

\* mutant: the zero time is never recognised
IsZeroNever(t) == FALSE

\* time.Time.IsZero
IsZero(t) == t = ZeroTime

\* New(delay, queueLen): both copies; `last` is zero or time.Now()
Init ==
  /\ delay \in 0..MaxDelay
  /\ cap \in 0..MaxQueueLen
  /\ last \in {ZeroTime, StartTime}
  /\ fnCh = <<>>
  /\ closed = FALSE
  /\ now = StartTime
  /\ wpc = "recv"
  /\ cur = 0
  /\ wakeAt = 0
  /\ pc = [p \in Procs |-> "idle"]
  /\ mycb = [p \in Procs |-> 0]
  /\ nextId = 1
  /\ wrapped = {}
  /\ closer = {}
  /\ running = {}
  /\ enq = <<>>
  /\ started = <<>>
  /\ startAt = 0
  /\ lateStarts = 0
  /\ finished = {}
  /\ res = [c \in Ids |-> "none"]
  /\ late = {}
  /\ closeTrue = 0
  /\ closeFalse = 0
  /\ nClose = 0
  /\ deq = 0
  /\ closedBy = "none"
  /\ rl = [called |-> FALSE, q |-> 0, w |-> 0, ok |-> TRUE, out |-> 0]

\* ---- the clock ----------------------------------------------------------
\* Time passes between any two steps; past MaxTime only to end a sleep.
Tick ==
  /\ \/ now < MaxTime
     \/ wpc = "sleep" /\ now < wakeAt
  /\ now' = now + 1
  /\ UNCHANGED <<delay, cap, last, fnCh, closed, wpc, cur, wakeAt, cli, hist>>
  /\ UNCHANGED <<deq, closedBy, rl>>

\* ---- the channel fnCh -----------------------------------------------------
\* w.fnCh <- c: buffered while there is room; with no buffer (queueLen 0) the
\* value is handed to the worker parked at its receive.
ChanSend(c) ==
  \/ /\ Len(fnCh) < cap
     /\ fnCh' = Append(fnCh, c)
     /\ UNCHANGED <<wpc, cur, deq>>
  \/ /\ cap = 0
     /\ wpc = "recv"
     /\ wpc' = "check"
     /\ cur' = c
     /\ deq' = deq + 1
     /\ UNCHANGED fnCh

\* mutant: the callback the worker holds is counted too
WaiterLenInFlight == Len(fnCh) + (IF cur # 0 THEN 1 ELSE 0)

\* w.Len(): len(w.fnCh)
WaiterLen == Len(fnCh)

\* mutant: the swap reports success whatever the flag held
CASAlways == TRUE

\* closed.CompareAndSwap(false, true) succeeds iff the flag is still false
CASok == closed = FALSE

\* mutant: Call does not look at the flag
CallSeesOpen == FALSE

\* Call: w.closed.Load()
CallSeesClosed == closed

\* ---- client goroutines: Call, Wait, Close ---------------------------------
\* Goroutines that are in no call are interchangeable: the next invocation
\* is made by the lowest-numbered one.
Free(p) == pc[p] = "idle" /\ \A q \in Procs : q < p => pc[q] # "idle"

\* Call's first statement, shared by Call and by the goroutine Wait spawns:
\* if w.closed.Load() { return ErrWaiterClosed }, else go on to the send.
\* c is the callback passed in; k tells whether its body calls w.Close().
CallBegin(p, c, k) ==
  /\ Free(p)
  /\ c = nextId
  /\ c <= MaxCalls
  /\ k => nClose < MaxClose
  /\ nextId' = nextId + 1
  /\ closer' = IF k THEN closer \cup {c} ELSE closer
  /\ nClose' = IF k THEN nClose + 1 ELSE nClose
  /\ late' = IF closeTrue > 0 THEN late \cup {c} ELSE late
  /\ IF CallSeesClosed
       THEN /\ res' = [res EXCEPT ![c] = "err"]
            /\ UNCHANGED <<pc, mycb>>
       ELSE /\ res' = [res EXCEPT ![c] = "pending"]
            /\ pc' = [pc EXCEPT ![p] = "send"]
            /\ mycb' = [mycb EXCEPT ![p] = c]

\* mutant: Call sends before it looks at the flag, so a rejected callback
\* is already in the buffer
CallLoadSendFirst(p) ==
  /\ \E k \in BOOLEAN : CallBegin(p, nextId, k)
  /\ fnCh' = IF closed /\ Len(fnCh) < cap THEN Append(fnCh, nextId) ELSE fnCh
  /\ UNCHANGED <<delay, cap, last, closed, now, wpc, cur, wakeAt>>
  /\ UNCHANGED <<wrapped, running, enq, started, startAt, lateStarts, finished,
                 closeTrue, closeFalse>>
  /\ UNCHANGED <<deq, closedBy, rl>>

\* w.Call(fn) up to the send
CallLoad(p) ==
  /\ \E k \in BOOLEAN : CallBegin(p, nextId, k)
  /\ UNCHANGED <<prog, wrapped, running, enq, started, startAt, lateStarts, finished, closeTrue,
                 closeFalse>>
  /\ UNCHANGED <<deq, closedBy, rl>>

\* w.Wait(f): make `done`, spawn the goroutine that calls
\* w.Call(func() { f(); done <- nil }), block on <-done; a closed waiter
\* answers through done <- err and Wait returns the error
WaitLoad(p) ==
  /\ \E k \in BOOLEAN : CallBegin(p, nextId, k)
  /\ wrapped' = wrapped \cup {nextId}
  /\ UNCHANGED <<prog, running, enq, started, startAt, lateStarts, finished, closeTrue,
                 closeFalse>>
  /\ UNCHANGED <<deq, closedBy, rl>>

\* Call: w.fnCh <- fn; return nil.  Inside Wait the spawned goroutine ends
\* and the caller stays blocked on <-done.
CallSend(p) ==
  /\ pc[p] = "send"
  /\ ChanSend(mycb[p])
  /\ enq' = Append(enq, mycb[p])
  /\ IF mycb[p] \in wrapped
       THEN /\ pc' = [pc EXCEPT ![p] = "blocked"]
            /\ UNCHANGED <<res, mycb>>
       ELSE /\ pc' = [pc EXCEPT ![p] = "idle"]
            /\ res' = [res EXCEPT ![mycb[p]] = "nil"]
            /\ mycb' = [mycb EXCEPT ![p] = 0]
  /\ UNCHANGED <<delay, cap, last, closed, now, wakeAt, nextId,
                 wrapped, closer, running, started, startAt, lateStarts, finished, late, closeTrue,
                 closeFalse, nClose>>
  /\ UNCHANGED <<closedBy, rl>>

\* w.Close(): the CompareAndSwap and the result it reports
CloseFlag ==
  /\ closed' = (IF CASok THEN TRUE ELSE closed)
  /\ closeTrue' = IF CASok THEN closeTrue + 1 ELSE closeTrue
  /\ closeFalse' = IF CASok THEN closeFalse ELSE closeFalse + 1

\* mutant: Close also empties the queue
CloseDrain(p) ==
  /\ Free(p)
  /\ nClose < MaxClose
  /\ nClose' = nClose + 1
  /\ CloseFlag
  /\ fnCh' = <<>>
  /\ UNCHANGED <<delay, cap, last, now, wpc, cur, wakeAt, pc, mycb,
                 nextId, wrapped, closer, running, enq, started, startAt, lateStarts, finished, res,
                 late>>
  /\ closedBy' = IF CASok THEN "client" ELSE closedBy
  /\ UNCHANGED <<deq, rl>>

\* a client goroutine calls w.Close()
Close(p) ==
  /\ Free(p)
  /\ nClose < MaxClose
  /\ nClose' = nClose + 1
  /\ CloseFlag
  /\ UNCHANGED <<delay, cap, last, fnCh, now, wpc, cur, wakeAt, pc, mycb,
                 nextId, wrapped, closer, running, enq, started, startAt, lateStarts, finished, res,
                 late>>
  /\ closedBy' = IF CASok THEN "client" ELSE closedBy
  /\ UNCHANGED <<deq, rl>>

\* ---- the worker goroutine: run and wait -----------------------------------
\* mutant: the receive leaves the callback in the buffer
WorkerRecvKeep ==
  /\ wpc = "recv"
  /\ fnCh # <<>>
  /\ cur' = Head(fnCh)
  /\ wpc' = "check"
  /\ UNCHANGED <<delay, cap, last, fnCh, closed, now, wakeAt, cli, hist>>
  /\ deq' = deq + 1
  /\ UNCHANGED <<closedBy, rl>>

\* for fn := range w.fnCh: receive the oldest buffered callback
WorkerRecv ==
  /\ wpc = "recv"
  /\ fnCh # <<>>
  /\ cur' = Head(fnCh)
  /\ fnCh' = Tail(fnCh)
  /\ wpc' = "check"
  /\ UNCHANGED <<delay, cap, last, closed, now, wakeAt, cli, hist>>
  /\ deq' = deq + 1
  /\ UNCHANGED <<closedBy, rl>>

\* mutant: run never looks at the flag
WorkerCheckNever ==
  /\ wpc = "check"
  /\ wpc' = "wait"
  /\ UNCHANGED <<delay, cap, last, fnCh, closed, now, cur, wakeAt, cli, hist>>
  /\ UNCHANGED <<deq, closedBy, rl>>

\* mutant: the test of the flag inverted, run returns while the waiter is open
WorkerCheckInverted ==
  /\ wpc = "check"
  /\ IF ~closed
       THEN wpc' = "done" /\ cur' = 0
       ELSE wpc' = "wait" /\ UNCHANGED cur
  /\ UNCHANGED <<delay, cap, last, fnCh, closed, now, wakeAt, cli, hist>>
  /\ UNCHANGED <<deq, closedBy, rl>>

\* if w.closed.Load() { break }: the callback held is dropped, run returns
WorkerCheck ==
  /\ wpc = "check"
  /\ IF closed
       THEN wpc' = "done" /\ cur' = 0
       ELSE wpc' = "wait" /\ UNCHANGED cur
  /\ UNCHANGED <<delay, cap, last, fnCh, closed, now, wakeAt, cli, hist>>
  /\ UNCHANGED <<deq, closedBy, rl>>

\* mutant: run starts the callback in a goroutine of its own (go fn()) and
\* goes back to the receive
StartFnGo(c) ==
  /\ wpc' = "recv"
  /\ running' = running \cup {c}
  /\ started' = Append(started, c)
  /\ startAt' = now
  /\ lateStarts' = IF closed THEN lateStarts + 1 ELSE lateStarts
  /\ wakeAt' = 0

\* wait() returns and run calls fn(): the execution of callback c starts
StartFn(c) ==
  /\ wpc' = "exec"
  /\ running' = running \cup {c}
  /\ started' = Append(started, c)
  /\ startAt' = now
  /\ lateStarts' = IF closed THEN lateStarts + 1 ELSE lateStarts
  /\ wakeAt' = 0

\* mutant: the subtraction the other way round
SleepTimeSwapped(t) == (t - last) - delay

\* how long wait() sleeps, given the time it read and w.last
SleepTime(t) == delay - (t - last)

\* mutant: wait() sleeps the whole delay whatever has elapsed
WorkerWaitFullSleep ==
  /\ wpc = "wait"
  /\ IF IsZero(last)
       THEN /\ last' = now
            /\ StartFn(cur)
       ELSE /\ wpc' = "sleep"
            /\ wakeAt' = now + delay
            /\ UNCHANGED <<last, running, started, startAt, lateStarts>>
  /\ UNCHANGED <<delay, cap, fnCh, closed, now, cur, pc, mycb, nextId,
                 wrapped, closer, enq, finished, res, late, closeTrue,
                 closeFalse, nClose>>
  /\ UNCHANGED <<deq, closedBy, rl>>

\* wait(): now := time.Now(); the IsZero branch sets last and returns;
\* otherwise elapsed := now.Sub(w.last) and, if elapsed < w.delay,
\* time.Sleep(w.delay - elapsed) begins
WorkerWait ==
  /\ wpc = "wait"
  /\ IF IsZero(last)
       THEN /\ last' = now
            /\ StartFn(cur)
       ELSE /\ IF now - last < delay
                 THEN /\ wpc' = "sleep"
                      /\ wakeAt' = now + SleepTime(now)
                 ELSE /\ wpc' = "stamp"
                      /\ UNCHANGED wakeAt
            /\ UNCHANGED <<last, running, started, startAt, lateStarts>>
  /\ UNCHANGED <<delay, cap, fnCh, closed, now, cur, pc, mycb, nextId,
                 wrapped, closer, enq, finished, res, late, closeTrue,
                 closeFalse, nClose>>
  /\ UNCHANGED <<deq, closedBy, rl>>

\* wait(): time.Sleep is over (or was skipped); w.last = time.Now(); return,
\* and run calls fn()
WorkerStamp ==
  /\ \/ wpc = "stamp"
     \/ wpc = "sleep" /\ now >= wakeAt
  /\ last' = now
  /\ StartFn(cur)
  /\ UNCHANGED <<delay, cap, fnCh, closed, now, cur, pc, mycb, nextId,
                 wrapped, closer, enq, finished, res, late, closeTrue,
                 closeFalse, nClose>>
  /\ UNCHANGED <<deq, closedBy, rl>>

\* the callback's body f returns; a body that calls w.Close() has done its
\* CompareAndSwap.  A plain callback is over; one built by Wait goes on to
\* done <- nil.
WorkerFinish ==
  /\ wpc = "exec"
  /\ finished' = finished \cup {cur}
  /\ IF cur \in closer
       THEN CloseFlag
       ELSE UNCHANGED <<closed, closeTrue, closeFalse>>
  /\ IF cur \in wrapped
       THEN /\ wpc' = "signal"
            /\ UNCHANGED <<cur, running>>
       ELSE /\ wpc' = "recv"
            /\ cur' = 0
            /\ running' = running \ {cur}
  /\ UNCHANGED <<delay, cap, last, fnCh, now, wakeAt, pc, mycb, nextId,
                 wrapped, closer, enq, started, startAt, lateStarts, res, late, nClose>>
  /\ closedBy' = IF cur \in closer /\ CASok THEN "callback" ELSE closedBy
  /\ UNCHANGED <<deq, rl>>

\* mutant: one `done` channel shared by every Wait
AnyReceiver(p) == pc[p] = "blocked"

\* the receiver of `done`: each Wait made its own channel, so the callback's
\* send reaches the goroutine blocked in the Wait that built it
DoneReceiver(p) == pc[p] = "blocked" /\ mycb[p] = cur

\* done <- nil meets <-done: the wrapped callback returns to run, and Wait
\* returns nil
WorkerSignal ==
  /\ wpc = "signal"
  /\ \E p \in Procs :
       /\ DoneReceiver(p)
       /\ pc' = [pc EXCEPT ![p] = "idle"]
       /\ res' = [res EXCEPT ![mycb[p]] = "nil"]
       /\ mycb' = [mycb EXCEPT ![p] = 0]
  /\ wpc' = "recv"
  /\ cur' = 0
  /\ running' = running \ {cur}
  /\ UNCHANGED <<delay, cap, last, fnCh, closed, now, wakeAt,
                 nextId, wrapped, closer, enq, started, startAt, lateStarts, finished, late,
                 closeTrue, closeFalse, nClose>>
  /\ UNCHANGED <<deq, closedBy, rl>>

Worker ==
  \/ WorkerRecv
  \/ WorkerCheck
  \/ WorkerWait
  \/ WorkerStamp
  \/ WorkerFinish
  \/ WorkerSignal

Client(p) ==
  \/ CallLoad(p)
  \/ WaitLoad(p)
  \/ CallSend(p)
  \/ Close(p)

Next ==
  \/ Tick
  \/ Worker
  \/ \E p \in Procs : Client(p)

Spec == Init /\ [][Next]_vars

\* ---- RateLimit -------------------------------------------------------------
\* ExampleRateLimit: RateLimit(100, 1*time.Second) prints 10ms (durations in
\* milliseconds)
ExampleQuantity == 100
ExampleWindow   == 1000
ExampleDelay    == 10

Quantities == ((0 - MaxQuantity)..MaxQuantity) \cup {ExampleQuantity}
Windows    == ((0 - MaxWindow)..MaxWindow) \cup {ExampleWindow}

Abs(n) == IF n < 0 THEN 0 - n ELSE n

\* Go's integer division: the quotient truncated toward zero (b # 0)
GoDiv(a, b) ==
  IF (a >= 0) = (b > 0)
    THEN Abs(a) \div Abs(b)
    ELSE 0 - (Abs(a) \div Abs(b))

\* mutant: the operands the other way round
RateLimitSwapped(quantity, d) ==
  IF d = 0
    THEN [ok |-> FALSE, out |-> 0]
    ELSE [ok |-> TRUE, out |-> GoDiv(quantity, d)]

\* RateLimit(quantity, delay) = delay / time.Duration(quantity); dividing by
\* zero panics and no duration is returned
RateLimit(quantity, d) ==
  IF quantity = 0
    THEN [ok |-> FALSE, out |-> 0]
    ELSE [ok |-> TRUE, out |-> GoDiv(d, quantity)]

\* a call RateLimit(q, w): it reads its arguments and nothing else
RateLimitCall(q, w) ==
  /\ rl' = [called |-> TRUE, q |-> q, w |-> w,
            ok |-> RateLimit(q, w).ok, out |-> RateLimit(q, w).out]
  /\ UNCHANGED <<prog, cli, hist, deq, closedBy>>

RateNext == \E q \in Quantities, w \in Windows : RateLimitCall(q, w)

\* RateLimit applied to every pair of arguments, beside a new Waiter
RateSpec == Init /\ [][RateNext]_vars

\* The Go scheduler runs every runnable goroutine, time passes, callbacks
\* return, and a sender blocked on fnCh gets the slot a receive frees.
FairSpec ==
  /\ Spec
  /\ WF_vars(Tick)
  /\ WF_vars(Worker)
  /\ \A p \in Procs : SF_vars(CallSend(p))

\* The runs in which Close is never invoked: no client calls it and no
\* callback body does.
NoCloseNext ==
  \/ Tick
  \/ Worker
  \/ \E p \in Procs : CallLoad(p) /\ closer' = closer
  \/ \E p \in Procs : WaitLoad(p) /\ closer' = closer
  \/ \E p \in Procs : CallSend(p)

NoCloseFair ==
  /\ Init
  /\ [][NoCloseNext]_vars
  /\ WF_vars(Tick)
  /\ WF_vars(Worker)
  /\ \A p \in Procs : SF_vars(CallSend(p))

\* ---- helpers for the properties -------------------------------------------
Range(q) == {q[i] : i \in 1..Len(q)}

IsPrefix(a, b) == Len(a) <= Len(b) /\ \A i \in 1..Len(a) : a[i] = b[i]

Count(q, c) == Cardinality({i \in 1..Len(q) : q[i] = c})

\* ---- properties -----------------------------------------------------------

C2_OneAtATime == Cardinality(running) <= 1

C2_Witness ==
  /\ Cardinality(running) = 1
  /\ Len(started) = 2
  /\ \E p \in Procs : pc[p] = "blocked"

\* C3 (spacing): every execution after the first starts at least `delay`
\* after the start of the execution before it.
C3_Spacing ==
  [][(Len(started') = Len(started) + 1 /\ Len(started) >= 1)
       => now' - startAt >= delay]_vars

C3_Witness == Len(started) = 2 /\ delay > 0 /\ startAt > StartTime

\* C4 (closed rejects): a Call or Wait begun after a Close reported that it
\* closed the waiter returns ErrWaiterClosed, and its callback is neither
\* enqueued nor executed.
C4_ClosedRejects ==
  \A c \in late :
    /\ res[c] = "err"
    /\ c \notin Range(enq)
    /\ c \notin Range(started)
    /\ c \notin running

C4_Witness == late # {} /\ Len(started) >= 1

\* C5 (idempotent close): at most one Close reports that it closed the
\* waiter, exactly one once the flag is set, every other reports
\* already-closed, and the flag never returns to open.
C5_OneCloser ==
  /\ closeTrue <= 1
  /\ closed <=> closeTrue = 1
  /\ closeFalse > 0 => closeTrue = 1

C5_Witness == closeTrue = 1 /\ closeFalse = 1

\* C6 as stated (immediate first call): the worker never sleeps before the
\* first execution.
C6_FirstNeverSleeps == ~(started = <<>> /\ wpc = "sleep")

\* C6 amended: before the first execution the worker sleeps only when New
\* seeded `last` with the creation time, and then only until creation time
\* plus delay; with `last` left zero the delay step neither sleeps nor
\* re-reads the clock.
C6_FirstCall ==
  started = <<>> =>
    /\ last = ZeroTime => wpc \notin {"sleep", "stamp"}
    /\ wpc = "sleep" => last = StartTime /\ wakeAt = StartTime + delay

C6_Witness == Len(started) = 1 /\ last = startAt /\ startAt = StartTime + delay /\ delay > 0

\* C7 (close stops execution): no callback starts executing once the closed
\* flag is true.
C7_NoStartAfterClose == lateStarts = 0

C9_WaitReturns ==
  \A p \in Procs :
    (pc[p] \in {"send", "blocked"} /\ mycb[p] \in wrapped) ~> (pc[p] = "idle")

\* C10 (backpressure): a Call that found the waiter open and the queue at
\* capacity eventually enqueues its callback and returns nil.
C10_BlockedCallReturns ==
  \A p \in Procs :
    (pc[p] = "send" /\ mycb[p] \notin wrapped /\ Len(fnCh) >= cap)
      ~> (pc[p] = "idle")

\* C11 (no acceptance once closed): no callback is sent on fnCh while the
\* closed flag is already true.
C11_NoSendWhenClosed == [][enq' # enq => ~closed]_vars

\* C12 (rejection has no side effect): the step in which a Call or Wait is
\* answered ErrWaiterClosed leaves the buffer, the flag, `last` and the
\* receive count as they were, and a rejected callback is never sent on fnCh
\* nor executed.
C12_RejectNoEffect ==
  [][\A c \in Ids :
       /\ (res[c] # "err" /\ res'[c] = "err")
            => UNCHANGED <<fnCh, closed, last, enq, deq, started, running>>
       /\ res'[c] = "err"
            => c \notin Range(enq') /\ c \notin Range(started')
                 /\ c \notin Range(fnCh')]_vars

C12_Witness ==
  \E c \in wrapped : res[c] = "err" /\ fnCh # <<>> /\ last # ZeroTime

\* C13 (execution liveness): when Close is never invoked, every callback sent
\* on fnCh (Call returned nil, or Wait enqueued it) is eventually executed.
C13_Executed ==
  \A c \in Ids : (c \in Range(enq)) ~> (c \in Range(started))

C13_Witness ==
  /\ Len(started) = 2
  /\ started = enq
  /\ wrapped # {}
  /\ ~closed

\* C14 (worker termination): once the waiter is closed the worker eventually
\* leaves run.
C14_WorkerTerminates == closed ~> (wpc = "done")

\* C15 (sequential Wait pacing): a Wait that returns nil after k-1 other
\* Waits have returned nil does so no earlier than (k-1)*delay after the
\* waiter was created; Waits made one after another are the case where the
\* k-th to return is the k-th made.
C15_WaitPacing ==
  [][\A c \in wrapped :
       (res[c] = "pending" /\ res'[c] = "nil")
         => now' >= StartTime
                      + Cardinality({d \in wrapped : res[d] = "nil"}) * delay]_vars

C15_Witness ==
  /\ delay > 0
  /\ Cardinality({d \in wrapped : res[d] = "nil"}) = 2
  /\ \A p \in Procs : p > 1 => pc[p] = "idle"
  /\ Len(enq) = 2

\* C16 (RateLimit): for quantity > 0 and window >= 0 the result is the
\* truncated quotient window / quantity, RateLimit(100, 1 second) is 10ms,
\* quantity = 0 yields no duration, and the call changes nothing of a Waiter.
C16_RateLimit ==
  [][rl' # rl =>
       /\ UNCHANGED <<prog, cli, hist, deq, closedBy>>
       /\ rl'.q = 0 => ~rl'.ok
       /\ (rl'.q > 0 /\ rl'.w >= 0) =>
            /\ rl'.ok
            /\ rl'.out * rl'.q <= rl'.w
            /\ rl'.w < (rl'.out + 1) * rl'.q
       /\ (rl'.q = ExampleQuantity /\ rl'.w = ExampleWindow) =>
            rl'.ok /\ rl'.out = ExampleDelay]_vars

C16_Witness ==
  /\ rl.called
  /\ rl.q = ExampleQuantity
  /\ rl.w = ExampleWindow
  /\ rl.out = ExampleDelay

\* C17 (queue bound and Len): Len() is between 0 and the capacity given to
\* New, equals the number of callbacks sent minus the number the worker has
\* received (0 on a new Waiter), and does not count a callback in execution.
C17_LenBound ==
  /\ 0 <= WaiterLen
  /\ WaiterLen <= cap
  /\ WaiterLen = Len(enq) - deq
  /\ \A c \in running : Count(fnCh, c) = 0 /\ WaiterLen = Len(enq) - Len(started)

C17_Witness ==
  /\ cap = 1
  /\ WaiterLen = 1
  /\ running # {}
  /\ Len(enq) = 2

C20_Frame ==
  [][/\ delay' = delay
     /\ cap' = cap
     /\ (closeTrue' # closeTrue \/ closeFalse' # closeFalse)
          => /\ fnCh' = fnCh
             /\ WaiterLen' = WaiterLen
             /\ last' = last
     /\ (pc' # pc) => (last' = last /\ closed' = closed)
     /\ (last' # last) => (wpc \in {"wait", "sleep", "stamp"} /\ wpc' = "exec")]_vars

\* a client's Close has succeeded while a callback was queued and after an
\* execution had stamped `last`
C20_Witness ==
  /\ closedBy = "client"
  /\ fnCh # <<>>
  /\ started # <<>>
  /\ last = startAt

\* C21 (bounded overrun after close): when a client goroutine's Close set the
\* flag, at most one callback has started executing after the flag became
\* true; and at every moment the worker has dequeued at most one callback
\* more than it has started (never fewer).
C21_BoundedOverrun ==
  /\ closedBy = "client" => lateStarts <= 1
  /\ deq - Len(started) \in {0, 1}

\* a client closed the waiter while the worker held a callback it had
\* already checked: that callback started after the flag was set, and the
\* next one the worker dequeued was dropped
C21_Witness ==
  /\ closedBy = "client"
  /\ lateStarts = 1
  /\ deq = 2
  /\ Len(started) = 1
  /\ wpc = "done"

====
